---- MODULE Spec2Model ----
(***************************************************************************)
(* Model of src/app.py: the Mergington High School activities API.         *)
(*                                                                         *)
(* The module-level dict `activities` is loaded once from DATA_FILE and is *)
(* shared by every request.  The handlers are plain `def` endpoints, which *)
(* the framework runs on a pool of worker threads, so several handlers run *)
(* concurrently; each membership test, list.append and list.remove is one  *)
(* atomic step (one C call under the interpreter lock), and a thread may   *)
(* be preempted between any two of them.  The only lock of the program,    *)
(* `_lock`, is taken inside save_activities around the file write.         *)
(***************************************************************************)
EXTENDS Naturals, Sequences, FiniteSets, TLC

(* ------------------------------ bounds --------------------------------- *)

\* worker threads serving requests concurrently
NumThreads == 2

\* requests accepted in one behaviour
MaxRequests == 2

\* failures the file system may produce in one behaviour
MaxFaults == 1

Threads == 1..NumThreads

Emails == {"a@b.com", "c@d.com"}

\* the keys a data file may hold, in the order the file lists them
ActivityOrder == <<"Chess Club", "Gym Class">>

ActivityKeys == {ActivityOrder[i] : i \in 1..Len(ActivityOrder)}

\* the activity names a request may carry: the keys and one unknown name
RequestNames == ActivityKeys \cup {"Art Club"}

(* --------------------------- program constants ------------------------- *)

HTTP_200_OK == 200

HTTP_404_NOT_FOUND == 404

HTTP_400_BAD_REQUEST == 400

\* what the framework answers when a handler lets an exception escape
HTTP_500_INTERNAL_SERVER_ERROR == 500

(* ------------------------------ lists ----------------------------------- *)

\* Python's `e in lst`
Contains(lst, e) == \E i \in 1..Len(lst) : lst[i] = e

\* number of occurrences of e in lst
Count(lst, e) == Cardinality({i \in 1..Len(lst) : lst[i] = e})

\* ListRemove dropping the last element whatever e is (lst.pop())
ListRemoveLast(lst, e) == SubSeq(lst, 1, Len(lst) - 1)

\* Python's lst.remove(e) for a list that holds e: drops the first occurrence
ListRemove(lst, e) ==
    LET k == CHOOSE i \in 1..Len(lst) :
                 lst[i] = e /\ \A j \in 1..(i - 1) : lst[j] # e
    IN  [i \in 1..(Len(lst) - 1) |-> IF i < k THEN lst[i] ELSE lst[i + 1]]

\* append as the add of a set: nothing is added when e is in the list
ListAppendIfAbsent(lst, e) == IF Contains(lst, e) THEN lst ELSE Append(lst, e)

\* Python's lst.append(e)
ListAppend(lst, e) == Append(lst, e)

(* --------------------------- registry and file -------------------------- *)

\* the empty dict {}
EmptyRegistry == [n \in {} |-> {}]

\* one activity object of the data file
Activity(desc, sched, cap, parts) ==
    [description |-> desc, schedule |-> sched, max_participants |-> cap,
     participants |-> parts]

\* the keys of a dict in iteration order
KeysOf(reg) == SelectSeq(ActivityOrder, LAMBDA n : n \in DOMAIN reg)

(* ------------------------------- JSON ----------------------------------- *)

\* The text of a file is a sequence of JSON tokens: punctuation, strings
\* and numbers.
Punct(c) == <<"punct", c>>

Str(x) == <<"str", x>>

Num(x) == <<"num", x>>

\* the elements of a list written one after the other, with nothing
\* between them
RECURSIVE DumpElementsUnseparated(_, _)
DumpElementsUnseparated(lst, i) ==
    IF i > Len(lst) THEN <<>>
    ELSE <<Str(lst[i])>> \o DumpElementsUnseparated(lst, i + 1)

\* the elements of a list from the i-th on, with the commas between them
RECURSIVE DumpElements(_, _)
DumpElements(lst, i) ==
    IF i > Len(lst) THEN <<>>
    ELSE IF i = Len(lst) THEN <<Str(lst[i])>>
    ELSE <<Str(lst[i]), Punct(",")>> \o DumpElements(lst, i + 1)

\* one activity object as json.dump writes it
DumpActivity(a) ==
    <<Punct("{"),
      Str("description"), Punct(":"), Str(a.description), Punct(","),
      Str("schedule"), Punct(":"), Str(a.schedule), Punct(","),
      Str("max_participants"), Punct(":"), Num(a.max_participants), Punct(","),
      Str("participants"), Punct(":"), Punct("[")>>
    \o DumpElements(a.participants, 1)
    \o <<Punct("]"), Punct("}")>>

\* the members of the top-level object from the i-th key on
RECURSIVE DumpMembers(_, _, _)
DumpMembers(reg, ks, i) ==
    IF i > Len(ks) THEN <<>>
    ELSE <<Str(ks[i]), Punct(":")>> \o DumpActivity(reg[ks[i]])
         \o (IF i = Len(ks) THEN <<>>
             ELSE <<Punct(",")>> \o DumpMembers(reg, ks, i + 1))

\* json.dump(data, f, indent=2): the text written for the dict `data`
json_dump(reg) ==
    <<Punct("{")>> \o DumpMembers(reg, KeysOf(reg), 1) \o <<Punct("}")>>

ParseError == [ok |-> FALSE, val |-> <<>>, next |-> 0]

Parsed(v, n) == [ok |-> TRUE, val |-> v, next |-> n]

IsPunct(toks, i, c) ==
    i <= Len(toks) /\ toks[i][1] = "punct" /\ toks[i][2] = c

\* a JSON parser over tokens: a value starts at token i; objects become
\* functions from their keys, arrays sequences, strings and numbers
\* themselves; a later duplicate key wins
RECURSIVE ParseValue(_, _), ParseElements(_, _, _), ParseMembers(_, _, _)
ParseValue(toks, i) ==
    IF i > Len(toks) THEN ParseError
    ELSE IF toks[i][1] \in {"str", "num"} THEN Parsed(toks[i][2], i + 1)
    ELSE IF IsPunct(toks, i, "[")
    THEN IF IsPunct(toks, i + 1, "]") THEN Parsed(<<>>, i + 2)
         ELSE ParseElements(toks, i + 1, <<>>)
    ELSE IF IsPunct(toks, i, "{")
    THEN IF IsPunct(toks, i + 1, "}") THEN Parsed(EmptyRegistry, i + 2)
         ELSE ParseMembers(toks, i + 1, EmptyRegistry)
    ELSE ParseError

ParseElements(toks, i, acc) ==
    LET v == ParseValue(toks, i)
    IN  IF ~v.ok THEN ParseError
        ELSE IF IsPunct(toks, v.next, ",")
        THEN ParseElements(toks, v.next + 1, Append(acc, v.val))
        ELSE IF IsPunct(toks, v.next, "]")
        THEN Parsed(Append(acc, v.val), v.next + 1)
        ELSE ParseError

ParseMembers(toks, i, acc) ==
    IF ~(i <= Len(toks) /\ toks[i][1] = "str" /\ IsPunct(toks, i + 1, ":"))
    THEN ParseError
    ELSE LET v == ParseValue(toks, i + 2)
             more == (toks[i][2] :> v.val) @@ acc
         IN  IF ~v.ok THEN ParseError
             ELSE IF IsPunct(toks, v.next, ",")
             THEN ParseMembers(toks, v.next + 1, more)
             ELSE IF IsPunct(toks, v.next, "}")
             THEN Parsed(more, v.next + 1)
             ELSE ParseError

\* json.load(f): the value of a text that is one whole JSON document
json_load(toks) ==
    LET v == ParseValue(toks, 1)
    IN  IF v.ok /\ v.next = Len(toks) + 1 THEN v ELSE ParseError

(* ------------------------------ the file -------------------------------- *)

\* The data file is absent, or present but not openable, or present with a
\* text.  A file holding the whole dump of a dict is kept as that dict, and
\* a file cut short (truncated by open("w"), or partly written) as the dict
\* whose dump lacks its end.
MissingFile == [kind |-> "missing", data |-> EmptyRegistry]

UnreadableFile == [kind |-> "unreadable", data |-> EmptyRegistry]

CorruptFile == [kind |-> "corrupt", data |-> EmptyRegistry]

CutShortFile(reg) == [kind |-> "corrupt", data |-> reg]

JsonFile(reg) == [kind |-> "json", data |-> reg]

\* the text of a file that can be opened
FileText(f) ==
    IF f.kind = "json" THEN json_dump(f.data)
    ELSE SubSeq(json_dump(f.data), 1, Len(json_dump(f.data)) - 1)

\* load_activities() taking what it can from a file that is cut short
load_activitiesLenient(f) ==
    IF f.kind = "missing" THEN EmptyRegistry ELSE f.data

\* load_activities(): json.load of the file; {} when the file does not
\* exist, and {} when open or json.load raises
load_activities(f) ==
    IF f.kind = "missing" THEN EmptyRegistry
    ELSE IF f.kind = "unreadable" THEN EmptyRegistry
    ELSE IF json_load(FileText(f)).ok THEN json_load(FileText(f)).val
    ELSE EmptyRegistry

\* the participant lists a data file starts with (no email twice)
InitialLists == {<<>>, <<"c@d.com", "a@b.com">>}

\* the registries a data file may hold
InitialRegistries ==
    {[n \in ActivityKeys |->
         IF n = "Chess Club"
         THEN Activity("Learn chess", "Fridays", 1, p)
         ELSE Activity("Physical education", "Mondays", 1, <<>>)]
     : p \in InitialLists}

\* the data files the server may be started on
InitialFiles ==
    {MissingFile, UnreadableFile, CorruptFile, JsonFile(EmptyRegistry)}
    \cup {CutShortFile(reg) : reg \in InitialRegistries}
    \cup {JsonFile(reg) : reg \in InitialRegistries}

(* ------------------------------ state ----------------------------------- *)

VARIABLES
    activities,   \* the module-level dict `activities`
    data_file,    \* the content of DATA_FILE on disk
    lock,         \* the threads holding `_lock`
    wbuf,         \* what the save in progress has written so far
    pc,           \* where each worker thread is in its handler
    req,          \* the request each thread is serving
    result,       \* the response of each thread's last finished request
    nreq,         \* requests accepted so far
    faults,       \* file system failures so far
    loaded,       \* the registry as load_activities() returned it at startup
    was_member,   \* served alone: was the email a participant on arrival
    applied,      \* whether the request has done its append or remove
    rbuf,         \* what the encoding of each thread's response has copied
    seen,         \* the registries there have been since each listing began
    appended,     \* per activity, the appends done since startup
    removed       \* per activity, the removes done since startup

vars == <<activities, data_file, lock, wbuf, pc, req, result, nreq, faults,
          loaded, was_member, applied, rbuf, seen, appended, removed>>

NoRequest == [op |-> "none", activity_name |-> "", email |-> ""]

NoResult == [outcome |-> "none", status_code |-> 0, detail |-> <<>>]

Returned(msg) ==
    [outcome |-> "return", status_code |-> HTTP_200_OK, detail |-> msg]

HTTPException(code, msg) ==
    [outcome |-> "HTTPException", status_code |-> code, detail |-> <<msg>>]

\* an exception no handler catches: list.remove(x) with x not in the list
ValueError ==
    [outcome |-> "ValueError",
     status_code |-> HTTP_500_INTERNAL_SERVER_ERROR,
     detail |-> <<"list.remove(x): x not in list">>]

Init ==
    /\ data_file \in InitialFiles
    /\ activities = load_activities(data_file)
    /\ loaded = activities
    /\ lock = {}
    /\ wbuf = EmptyRegistry
    /\ pc = [t \in Threads |-> "idle"]
    /\ req = [t \in Threads |-> NoRequest]
    /\ result = [t \in Threads |-> NoResult]
    /\ nreq = 0
    /\ faults = 0
    /\ was_member = [t \in Threads |-> FALSE]
    /\ applied = [t \in Threads |-> FALSE]
    /\ rbuf = [t \in Threads |-> EmptyRegistry]
    /\ seen = [t \in Threads |-> {}]
    /\ appended = [n \in DOMAIN activities |-> 0]
    /\ removed = [n \in DOMAIN activities |-> 0]

(* ---------------------------- requests ---------------------------------- *)

Requests ==
    [op : {"signup", "unregister"}, activity_name : RequestNames, email : Emails]

\* lst in place of the participant list of every activity, as when the
\* activities share one list object
WithParticipantsShared(reg, n, lst) ==
    [m \in DOMAIN reg |-> [reg[m] EXCEPT !.participants = lst]]

\* the participant list of activity n with lst in place of the old list
WithParticipants(reg, n, lst) ==
    [reg EXCEPT ![n] = [reg[n] EXCEPT !.participants = lst]]

\* the response of a finished request, and the thread free for the next one
Respond(t, r) ==
    /\ result' = [result EXCEPT ![t] = r]
    /\ pc' = [pc EXCEPT ![t] = "done"]

\* the message both handlers return after their save_activities call
Message(r) ==
    IF r.op = "signup"
    THEN <<"Signed up", r.email, "for", r.activity_name>>
    ELSE <<"Unregistered", r.email, "from", r.activity_name>>

\* whether request r names an activity of reg that lists r's email
IsParticipant(reg, r) ==
    /\ r.activity_name \in DOMAIN reg
    /\ Contains(reg[r.activity_name].participants, r.email)

\* the registry reg joins what every listing in progress may have seen
Observe(reg) ==
    [t \in Threads |->
        IF pc[t] = "encode"
        THEN seen[t] \cup {reg} ELSE seen[t]]

\* a worker thread is handed a request
Accept(t) ==
    /\ pc[t] \in {"idle", "done"}
    /\ nreq < MaxRequests
    /\ \E r \in Requests : req' = [req EXCEPT ![t] = r]
    /\ applied' = [applied EXCEPT ![t] = FALSE]
    /\ nreq' = nreq + 1
    /\ pc' = [pc EXCEPT ![t] = "check_activity"]
    /\ result' = [result EXCEPT ![t] = NoResult]
    /\ UNCHANGED <<activities, data_file, lock, wbuf, faults, loaded>>

\* a request arrives, whatever the other threads are doing
Dispatch(t) ==
    /\ Accept(t)
    /\ UNCHANGED <<was_member, rbuf, seen, appended, removed>>

\* a request arrives while no other request is being served; its email's
\* membership on arrival is recorded
DispatchAlone(t) ==
    /\ \A u \in Threads : pc[u] \in {"idle", "done"}
    /\ Accept(t)
    /\ was_member' =
          [was_member EXCEPT ![t] = IsParticipant(activities, req'[t])]
    /\ UNCHANGED <<rbuf, seen, appended, removed>>

(* ----------------------- signup_for_activity ---------------------------- *)

\* `if activity_name not in activities: raise HTTPException(404)`
SignupCheckActivity(t) ==
    /\ pc[t] = "check_activity"
    /\ req[t].op = "signup"
    /\ IF req[t].activity_name \notin DOMAIN activities
       THEN Respond(t, HTTPException(HTTP_404_NOT_FOUND, "Activity not found"))
       ELSE /\ pc' = [pc EXCEPT ![t] = "check_participant"]
            /\ UNCHANGED result
    /\ UNCHANGED <<activities, data_file, lock, wbuf, req, nreq, faults,
                   loaded, was_member, applied, rbuf, seen, appended,
                   removed>>

\* SignupCheckParticipant without the membership test
SignupCheckParticipantSkipped(t) ==
    /\ pc[t] = "check_participant"
    /\ req[t].op = "signup"
    /\ pc' = [pc EXCEPT ![t] = "append"]
    /\ UNCHANGED <<activities, data_file, lock, wbuf, req, result, nreq,
                   faults, loaded, was_member, applied, rbuf, seen, appended,
                   removed>>

\* SignupCheckParticipant appending before it tests, so that the rejected
\* call has changed the list
SignupCheckParticipantLate(t) ==
    /\ pc[t] = "check_participant"
    /\ req[t].op = "signup"
    /\ LET n == req[t].activity_name
       IN  activities' = WithParticipants(activities, n,
               ListAppend(activities[n].participants, req[t].email))
    /\ IF Contains(activities[req[t].activity_name].participants, req[t].email)
       THEN /\ Respond(t, HTTPException(HTTP_400_BAD_REQUEST,
                                        "Student is already signed up"))
            /\ UNCHANGED applied
       ELSE /\ pc' = [pc EXCEPT ![t] = "save_mkdir"]
            /\ applied' = [applied EXCEPT ![t] = TRUE]
            /\ UNCHANGED result
    /\ UNCHANGED <<data_file, lock, wbuf, req, nreq, faults, loaded,
                   was_member, rbuf, removed>>
    /\ seen' = Observe(activities')
    /\ appended' = [appended EXCEPT ![req[t].activity_name] = @ + 1]

\* SignupCheckParticipant also refusing an activity whose list has reached
\* max_participants
SignupCheckParticipantFull(t) ==
    /\ pc[t] = "check_participant"
    /\ req[t].op = "signup"
    /\ LET activity == activities[req[t].activity_name]
       IN  IF Contains(activity.participants, req[t].email)
           THEN Respond(t, HTTPException(HTTP_400_BAD_REQUEST,
                                         "Student is already signed up"))
           ELSE IF Len(activity.participants) >= activity.max_participants
           THEN Respond(t, HTTPException(HTTP_400_BAD_REQUEST,
                                         "Activity is full"))
           ELSE /\ pc' = [pc EXCEPT ![t] = "append"]
                /\ UNCHANGED result
    /\ UNCHANGED <<activities, data_file, lock, wbuf, req, nreq, faults,
                   loaded, was_member, applied, rbuf, seen, appended,
                   removed>>

\* `if email in activity["participants"]: raise HTTPException(400)`
SignupCheckParticipant(t) ==
    /\ pc[t] = "check_participant"
    /\ req[t].op = "signup"
    /\ IF Contains(activities[req[t].activity_name].participants, req[t].email)
       THEN Respond(t, HTTPException(HTTP_400_BAD_REQUEST,
                                     "Student is already signed up"))
       ELSE /\ pc' = [pc EXCEPT ![t] = "append"]
            /\ UNCHANGED result
    /\ UNCHANGED <<activities, data_file, lock, wbuf, req, nreq, faults,
                   loaded, was_member, applied, rbuf, seen, appended,
                   removed>>

\* SignupAppend writing back a list built from the list as it was loaded
\* instead of appending to the live list
SignupAppendStale(t) ==
    /\ pc[t] = "append"
    /\ LET n == req[t].activity_name
       IN  activities' = WithParticipants(activities, n,
               ListAppend(loaded[n].participants, req[t].email))
    /\ pc' = [pc EXCEPT ![t] = "save_mkdir"]
    /\ applied' = [applied EXCEPT ![t] = TRUE]
    /\ UNCHANGED <<data_file, lock, wbuf, req, result, nreq, faults, loaded,
                   was_member, rbuf, removed>>
    /\ seen' = Observe(activities')
    /\ appended' = [appended EXCEPT ![req[t].activity_name] = @ + 1]

\* `activity["participants"].append(email)`
SignupAppend(t) ==
    /\ pc[t] = "append"
    /\ LET n == req[t].activity_name
       IN  activities' = WithParticipants(activities, n,
               ListAppend(activities[n].participants, req[t].email))
    /\ pc' = [pc EXCEPT ![t] = "save_mkdir"]
    /\ applied' = [applied EXCEPT ![t] = TRUE]
    /\ UNCHANGED <<data_file, lock, wbuf, req, result, nreq, faults, loaded,
                   was_member, rbuf, removed>>
    /\ seen' = Observe(activities')
    /\ appended' = [appended EXCEPT ![req[t].activity_name] = @ + 1]

(* --------------------- unregister_from_activity ------------------------- *)

\* UnregisterCheckActivity answering an unknown activity with the 400 of the
\* membership check
UnregisterCheckActivityAs400(t) ==
    /\ pc[t] = "check_activity"
    /\ req[t].op = "unregister"
    /\ IF req[t].activity_name \notin DOMAIN activities
       THEN Respond(t, HTTPException(HTTP_400_BAD_REQUEST,
                                     "Student is not signed up for this activity"))
       ELSE /\ pc' = [pc EXCEPT ![t] = "check_participant"]
            /\ UNCHANGED result
    /\ UNCHANGED <<activities, data_file, lock, wbuf, req, nreq, faults,
                   loaded, was_member, applied, rbuf, seen, appended,
                   removed>>

\* `if activity_name not in activities: raise HTTPException(404)`
UnregisterCheckActivity(t) ==
    /\ pc[t] = "check_activity"
    /\ req[t].op = "unregister"
    /\ IF req[t].activity_name \notin DOMAIN activities
       THEN Respond(t, HTTPException(HTTP_404_NOT_FOUND, "Activity not found"))
       ELSE /\ pc' = [pc EXCEPT ![t] = "check_participant"]
            /\ UNCHANGED result
    /\ UNCHANGED <<activities, data_file, lock, wbuf, req, nreq, faults,
                   loaded, was_member, applied, rbuf, seen, appended,
                   removed>>

\* `if email not in activity["participants"]: raise HTTPException(400)`
UnregisterCheckParticipant(t) ==
    /\ pc[t] = "check_participant"
    /\ req[t].op = "unregister"
    /\ IF ~Contains(activities[req[t].activity_name].participants, req[t].email)
       THEN Respond(t, HTTPException(HTTP_400_BAD_REQUEST,
                                     "Student is not signed up for this activity"))
       ELSE /\ pc' = [pc EXCEPT ![t] = "remove"]
            /\ UNCHANGED result
    /\ UNCHANGED <<activities, data_file, lock, wbuf, req, nreq, faults,
                   loaded, was_member, applied, rbuf, seen, appended,
                   removed>>

\* `activity["participants"].remove(email)`: list.remove raises ValueError
\* when the email is no longer in the list, and nothing catches it
UnregisterRemove(t) ==
    /\ pc[t] = "remove"
    /\ LET n == req[t].activity_name
           lst == activities[n].participants
       IN  IF Contains(lst, req[t].email)
           THEN /\ activities' =
                       WithParticipants(activities, n, ListRemove(lst, req[t].email))
                /\ pc' = [pc EXCEPT ![t] = "save_mkdir"]
                /\ applied' = [applied EXCEPT ![t] = TRUE]
                /\ removed' = [removed EXCEPT ![n] = @ + 1]
                /\ UNCHANGED result
           ELSE /\ Respond(t, ValueError)
                /\ UNCHANGED <<activities, applied, removed>>
    /\ UNCHANGED <<data_file, lock, wbuf, req, nreq, faults, loaded,
                   was_member, rbuf, appended>>
    /\ seen' = Observe(activities')

(* -------------------------- save_activities ---------------------------- *)

\* SaveRaised without the handler's try/except: the exception escapes
SaveRaisedEscapes(t) ==
    /\ faults < MaxFaults
    /\ faults' = faults + 1
    /\ lock' = lock \ {t}
    /\ Respond(t, [outcome |-> "OSError",
                   status_code |-> HTTP_500_INTERNAL_SERVER_ERROR,
                   detail |-> <<"save_activities">>])

\* SaveRaised with the lock taken by acquire() and released only at the end
\* of the write, so that an exception leaves it held
SaveRaisedLockHeld(t) ==
    /\ faults < MaxFaults
    /\ faults' = faults + 1
    /\ lock' = lock
    /\ Respond(t, Returned(Message(req[t])))

\* the handler's `except Exception: pass` after a save that raised, then its
\* `return {"message": ...}`: the lock is released by the `with` on the way out
SaveRaised(t) ==
    /\ faults < MaxFaults
    /\ faults' = faults + 1
    /\ lock' = lock \ {t}
    /\ Respond(t, Returned(Message(req[t])))

\* `DATA_FILE.parent.mkdir(parents=True, exist_ok=True)`
SaveMkdir(t) ==
    /\ pc[t] = "save_mkdir"
    /\ pc' = [pc EXCEPT ![t] = "save_lock"]
    /\ UNCHANGED <<activities, data_file, lock, wbuf, req, result, nreq,
                   faults, loaded, was_member, applied, rbuf, seen, appended,
                   removed>>

\* mkdir raises (the path is not reachable or not writable)
SaveMkdirFails(t) ==
    /\ pc[t] = "save_mkdir"
    /\ SaveRaised(t)
    /\ UNCHANGED <<activities, data_file, wbuf, req, nreq, loaded, was_member,
                   applied, rbuf, seen, appended, removed>>

\* save_activities entering its write without waiting for the lock
SaveAcquireNoWait(t) ==
    /\ pc[t] = "save_lock"
    /\ lock' = lock \cup {t}
    /\ pc' = [pc EXCEPT ![t] = "save_open"]
    /\ UNCHANGED <<activities, data_file, wbuf, req, result, nreq, faults,
                   loaded, was_member, applied, rbuf, seen, appended,
                   removed>>

\* `with _lock:` blocks until the lock is free
SaveAcquire(t) ==
    /\ pc[t] = "save_lock"
    /\ lock = {}
    /\ lock' = {t}
    /\ pc' = [pc EXCEPT ![t] = "save_open"]
    /\ UNCHANGED <<activities, data_file, wbuf, req, result, nreq, faults,
                   loaded, was_member, applied, rbuf, seen, appended,
                   removed>>

\* `DATA_FILE.open("w")` truncates the file: until the dump is complete and
\* the file closed, what is on disk is not a JSON document
SaveOpen(t) ==
    /\ pc[t] = "save_open"
    /\ data_file' = CorruptFile
    /\ wbuf' = EmptyRegistry
    /\ pc' = [pc EXCEPT ![t] = "save_dump"]
    /\ UNCHANGED <<activities, lock, req, result, nreq, faults, loaded,
                   was_member, applied, rbuf, seen, appended, removed>>

\* open raises: the file is left as it was
SaveOpenFails(t) ==
    /\ pc[t] = "save_open"
    /\ SaveRaised(t)
    /\ UNCHANGED <<activities, data_file, wbuf, req, nreq, loaded, was_member,
                   applied, rbuf, seen, appended, removed>>

\* the heading of activity n in the dump: its fixed fields and `[`
DumpStart(reg, n) ==
    n :> Activity(reg[n].description, reg[n].schedule,
                  reg[n].max_participants, <<>>)

\* the dump has emitted every key and has found the last list exhausted
DumpComplete ==
    LET ks == KeysOf(activities)
        k == Cardinality(DOMAIN wbuf)
    IN  /\ k = Len(ks)
        /\ k > 0 => Len(wbuf[ks[k]].participants)
                        >= Len(activities[ks[k]].participants)

\* `json.dump(data, f, indent=2)` writes the document chunk by chunk while
\* it iterates over the live dict and its live lists: one step emits the
\* next element of the current list (the list iterator compares its index
\* with the length the list has now), or moves to the next key
SaveDump(t) ==
    /\ pc[t] = "save_dump"
    /\ ~DumpComplete
    /\ LET ks == KeysOf(activities)
           k == Cardinality(DOMAIN wbuf)
       IN  IF k = 0
           THEN wbuf' = DumpStart(activities, ks[1])
           ELSE IF Len(wbuf[ks[k]].participants)
                      < Len(activities[ks[k]].participants)
           THEN wbuf' = WithParticipants(wbuf, ks[k],
                    Append(wbuf[ks[k]].participants,
                           activities[ks[k]].participants[
                               Len(wbuf[ks[k]].participants) + 1]))
           ELSE wbuf' = wbuf @@ DumpStart(activities, ks[k + 1])
    /\ UNCHANGED <<activities, data_file, lock, pc, req, result, nreq, faults,
                   loaded, was_member, applied, rbuf, seen, appended,
                   removed>>

\* a write (or the final flush) raises: the file stays truncated or partial
SaveWriteFails(t) ==
    /\ pc[t] = "save_dump"
    /\ SaveRaised(t)
    /\ wbuf' = EmptyRegistry
    /\ UNCHANGED <<activities, data_file, req, nreq, loaded, was_member,
                   applied, rbuf, seen, appended, removed>>

\* the dump ends; the file is closed with the whole document in it, the
\* lock is released, save_activities returns and the handler returns its
\* message
SaveClose(t) ==
    /\ pc[t] = "save_dump"
    /\ DumpComplete
    /\ data_file' = JsonFile(wbuf)
    /\ wbuf' = EmptyRegistry
    /\ lock' = lock \ {t}
    /\ Respond(t, Returned(Message(req[t])))
    /\ UNCHANGED <<activities, req, nreq, faults, loaded, was_member, applied,
                   rbuf, seen, appended, removed>>

(* ---------------------------- get_activities --------------------------- *)

ListRequest == [op |-> "list", activity_name |-> "", email |-> ""]

\* a worker thread is handed GET /activities and runs the handler, which is
\* `return activities`: it takes no lock and makes no copy; what it hands
\* to the framework is the dict the other handlers mutate
get_activities(t) ==
    /\ pc[t] \in {"idle", "done"}
    /\ nreq < MaxRequests
    /\ req' = [req EXCEPT ![t] = ListRequest]
    /\ applied' = [applied EXCEPT ![t] = FALSE]
    /\ nreq' = nreq + 1
    /\ pc' = [pc EXCEPT ![t] = "encode"]
    /\ result' = [result EXCEPT ![t] = NoResult]
    /\ rbuf' = [rbuf EXCEPT ![t] = EmptyRegistry]
    /\ seen' = [seen EXCEPT ![t] = {activities}]
    /\ UNCHANGED <<activities, data_file, lock, wbuf, faults, loaded,
                   was_member, appended, removed>>

\* the copy buf holds every key and the last list has been read to its end
EncodeComplete(buf) ==
    LET ks == KeysOf(activities)
        k == Cardinality(DOMAIN buf)
    IN  /\ k = Len(ks)
        /\ k > 0 => Len(buf[ks[k]].participants)
                        >= Len(activities[ks[k]].participants)

\* the copy buf after the next element of the current list, or the next
\* key, has been read from the live dict
EncodeNext(buf) ==
    LET ks == KeysOf(activities)
        k == Cardinality(DOMAIN buf)
    IN  IF k = 0
        THEN DumpStart(activities, ks[1])
        ELSE IF Len(buf[ks[k]].participants)
                   < Len(activities[ks[k]].participants)
        THEN WithParticipants(buf, ks[k],
                 Append(buf[ks[k]].participants,
                        activities[ks[k]].participants[
                            Len(buf[ks[k]].participants) + 1]))
        ELSE buf @@ DumpStart(activities, ks[k + 1])

\* the response is built from the returned dict after the handler has
\* returned: the dict and its lists are read item by item, as the dump of
\* save_activities reads them, while other threads run
ListEncode(t) ==
    /\ pc[t] = "encode"
    /\ ~EncodeComplete(rbuf[t])
    /\ rbuf' = [rbuf EXCEPT ![t] = EncodeNext(rbuf[t])]
    /\ UNCHANGED <<activities, data_file, lock, wbuf, pc, req, result, nreq,
                   faults, loaded, was_member, applied, seen, appended,
                   removed>>

\* the response is delivered to the caller
ListRespond(t) ==
    /\ pc[t] = "encode"
    /\ EncodeComplete(rbuf[t])
    /\ Respond(t, Returned(rbuf[t]))
    /\ rbuf' = [rbuf EXCEPT ![t] = EmptyRegistry]
    /\ seen' = [seen EXCEPT ![t] = {}]
    /\ UNCHANGED <<activities, data_file, lock, wbuf, req, nreq, faults,
                   loaded, was_member, applied, appended, removed>>

\* GET /activities arrives while no other request is being served
ListAlone(t) ==
    /\ \A u \in Threads : pc[u] \in {"idle", "done"}
    /\ get_activities(t)

(* --------------------------- specification ------------------------------ *)

signup_for_activity(t) ==
    \/ SignupCheckActivity(t)
    \/ SignupCheckParticipant(t)
    \/ SignupAppend(t)

unregister_from_activity(t) ==
    \/ UnregisterCheckActivity(t)
    \/ UnregisterCheckParticipant(t)
    \/ UnregisterRemove(t)

save_activities(t) ==
    \/ SaveMkdir(t)
    \/ SaveMkdirFails(t)
    \/ SaveAcquire(t)
    \/ SaveOpen(t)
    \/ SaveOpenFails(t)
    \/ SaveDump(t)
    \/ SaveWriteFails(t)
    \/ SaveClose(t)

Next ==
    \E t \in Threads :
        \/ Dispatch(t)
        \/ signup_for_activity(t)
        \/ unregister_from_activity(t)
        \/ save_activities(t)

Spec == Init /\ [][Next]_vars

\* the same server when its client sends one request at a time: a request
\* is accepted only while no other request is being served
SeqNext ==
    \E t \in Threads :
        \/ DispatchAlone(t)
        \/ ListAlone(t)
        \/ ListEncode(t)
        \/ ListRespond(t)
        \/ signup_for_activity(t)
        \/ unregister_from_activity(t)
        \/ save_activities(t)

SpecSeq == Init /\ [][SeqNext]_vars

\* the steps of thread t that are its own: its handler's statements and
\* the steps of save_activities that do not raise
Progress(t) ==
    \/ signup_for_activity(t)
    \/ unregister_from_activity(t)
    \/ SaveMkdir(t)
    \/ SaveAcquire(t)
    \/ SaveOpen(t)
    \/ SaveDump(t)
    \/ SaveClose(t)

\* the server under a scheduler that lets every thread that can take a
\* step take one eventually; a thread blocked on `with _lock:` can take its
\* step once the lock is free.  Requests may stop arriving and the file
\* system may or may not fail.
SpecFair == Spec /\ \A t \in Threads : WF_vars(Progress(t))

\* the server with GET /activities among its concurrent requests
ListNext ==
    \E t \in Threads :
        \/ Dispatch(t)
        \/ get_activities(t)
        \/ ListEncode(t)
        \/ ListRespond(t)
        \/ signup_for_activity(t)
        \/ unregister_from_activity(t)
        \/ save_activities(t)

SpecList == Init /\ [][ListNext]_vars

\* the participants of activity n in registry reg
Participants(reg, n) == reg[n].participants

TypeOK ==
    /\ pc \in [Threads -> {"idle", "check_activity", "check_participant",
                           "append", "remove", "save_mkdir", "save_lock",
                           "save_open", "save_dump", "encode", "done"}]
    /\ lock \subseteq Threads
    /\ nreq \in 0..MaxRequests
    /\ faults \in 0..MaxFaults
    /\ DOMAIN activities = DOMAIN loaded

(* ---------------------------- properties -------------------------------- *)

\* a request that has passed its first check and has not yet returned
InFlight(t) ==
    pc[t] \in {"check_participant", "append", "remove", "save_mkdir",
               "save_lock", "save_open", "save_dump"}

\* no request is being served
Quiescent == \A t \in Threads : pc[t] \in {"idle", "done"}

Success(r) == Returned(Message(r))

NotFound == HTTPException(HTTP_404_NOT_FOUND, "Activity not found")

AlreadyRegistered ==
    HTTPException(HTTP_400_BAD_REQUEST, "Student is already signed up")

NotRegistered ==
    HTTPException(HTTP_400_BAD_REQUEST,
                  "Student is not signed up for this activity")

\* C1: the lock serializes whole mutations: in every reachable state at most
\* one SignUp/Unregister is between its first check and the end of its save
C1_OneMutationInFlight ==
    Cardinality({t \in Threads : InFlight(t)}) <= 1

\* C2: in every reachable state every participant list holds each email at
\* most once
C2_NoDuplicateParticipants ==
    \A n \in DOMAIN activities : \A e \in Emails :
        Count(activities[n].participants, e) <= 1

\* the threads that have served a request, when each of them has served
\* exactly one and no request is being served
Batch == {t \in Threads : pc[t] = "done"}

BatchComplete == Quiescent /\ nreq = Cardinality(Batch) /\ Batch # {}

\* the batch is SignUp calls for one existing activity with pairwise distinct
\* emails, none of them a participant at startup
DistinctSignups ==
    /\ BatchComplete
    /\ \A t \in Batch :
          /\ req[t].op = "signup"
          /\ req[t].activity_name \in DOMAIN loaded
          /\ ~IsParticipant(loaded, req[t])
    /\ \A t, u \in Batch :
          /\ req[t].activity_name = req[u].activity_name
          /\ t # u => req[t].email # req[u].email

\* C3: once N concurrent SignUp calls with distinct emails for the same
\* activity have all returned, all have returned Success, the list is the
\* list at startup followed by exactly those N emails, each once, nothing
\* else has changed, and without a persistence failure the file holds the
\* same registry
C3_NoLostSignups ==
    DistinctSignups =>
        /\ \A t \in Batch : result[t] = Success(req[t])
        /\ \A n \in DOMAIN activities :
              LET new == {t \in Batch : req[t].activity_name = n}
                  old == loaded[n].participants
                  now == activities[n].participants
              IN  /\ Len(now) = Len(old) + Cardinality(new)
                  /\ SubSeq(now, 1, Len(old)) = old
                  /\ \A t \in new : Count(now, req[t].email) = 1
                  /\ activities[n] = [loaded[n] EXCEPT !.participants = now]
        /\ faults = 0 => load_activities(data_file) = activities

\* C3 witness: a batch of as many distinct SignUp calls as there are worker
\* threads has returned, with no persistence failure
C3_Witness ==
    /\ DistinctSignups
    /\ Cardinality(Batch) = NumThreads
    /\ faults = 0
    /\ data_file.kind = "json"

\* C4: every finished SignUp has answered Success, NotFound or
\* AlreadyRegistered and every finished Unregister Success, NotFound or
\* NotRegistered: no call ends in an exception that escapes the handler
C4_NoInternalError ==
    \A t \in Threads :
        pc[t] = "done" =>
            result[t] \in {Success(req[t]), NotFound,
                           IF req[t].op = "signup" THEN AlreadyRegistered
                                                   ELSE NotRegistered}

\* thread t finishes its request in this step
Completes(t) == pc[t] # "done" /\ pc'[t] = "done"

\* thread t is inside save_activities
Saving(t) ==
    pc[t] \in {"save_mkdir", "save_lock", "save_open", "save_dump"}

\* C5: served one at a time, a SignUp(A, E) for an activity of the registry
\* that arrives while E is not a participant of A returns Success with E a
\* participant of A at its return, and one that arrives while E is a
\* participant returns AlreadyRegistered; E stays a participant of A until
\* the remove of an Unregister(A, E), so that a second SignUp(A, E) with no
\* Unregister(A, E) in between returns AlreadyRegistered
C5_SignupThenAlreadyRegistered ==
    [][/\ \A t \in Threads :
             (/\ Completes(t)
              /\ req[t].op = "signup"
              /\ req[t].activity_name \in DOMAIN activities)
             => IF was_member[t]
                THEN result'[t] = AlreadyRegistered
                ELSE /\ result'[t] = Success(req[t])
                     /\ IsParticipant(activities', req[t])
       /\ \A n \in DOMAIN activities : \A e \in Emails :
             (/\ Contains(activities[n].participants, e)
              /\ ~Contains(activities'[n].participants, e))
             => \E u \in Threads :
                   /\ req[u] = [op |-> "unregister", activity_name |-> n,
                                email |-> e]
                   /\ pc[u] = "remove"
                   /\ pc'[u] # "remove"]_vars

\* C5 witness: a SignUp(A, E) for an email that was no participant at
\* startup has returned Success and a second SignUp(A, E) AlreadyRegistered
C5_Witness ==
    \E t, u \in Threads :
        /\ t # u
        /\ pc[t] = "done" /\ pc[u] = "done"
        /\ req[t] = req[u]
        /\ req[t].op = "signup"
        /\ req[t].activity_name \in DOMAIN loaded
        /\ ~IsParticipant(loaded, req[t])
        /\ IsParticipant(activities, req[t])
        /\ result[t] = Success(req[t])
        /\ result[u] = AlreadyRegistered

\* C6: served one at a time, an Unregister(A, E) for an activity of the
\* registry that arrives while E is a participant of A returns Success with
\* E no participant of A at its return, and one that arrives while E is no
\* participant returns NotRegistered; E stays out of A's list until the
\* append of a SignUp(A, E), so that a second Unregister(A, E) with no
\* SignUp(A, E) in between returns NotRegistered
C6_UnregisterThenNotRegistered ==
    [][/\ \A t \in Threads :
             (/\ Completes(t)
              /\ req[t].op = "unregister"
              /\ req[t].activity_name \in DOMAIN activities)
             => IF was_member[t]
                THEN /\ result'[t] = Success(req[t])
                     /\ ~IsParticipant(activities', req[t])
                ELSE result'[t] = NotRegistered
       /\ \A n \in DOMAIN activities : \A e \in Emails :
             (/\ ~Contains(activities[n].participants, e)
              /\ Contains(activities'[n].participants, e))
             => \E u \in Threads :
                   /\ req[u] = [op |-> "signup", activity_name |-> n,
                                email |-> e]
                   /\ pc[u] = "append"
                   /\ pc'[u] # "append"]_vars

\* C6 witness: an Unregister(A, E) for a participant other than the first of
\* the list has returned Success and a second Unregister(A, E) NotRegistered
C6_Witness ==
    \E t, u \in Threads :
        /\ t # u
        /\ pc[t] = "done" /\ pc[u] = "done"
        /\ req[t] = req[u]
        /\ req[t].op = "unregister"
        /\ IsParticipant(loaded, req[t])
        /\ loaded[req[t].activity_name].participants[1] # req[t].email
        /\ ~IsParticipant(activities, req[t])
        /\ result[t] = Success(req[t])
        /\ result[u] = NotRegistered

\* C7: a finished SignUp or Unregister whose activity name is no key of the
\* registry has answered NotFound (404 "Activity not found"), whatever its
\* email
C7_UnknownActivityNotFound ==
    \A t \in Threads :
        (pc[t] = "done" /\ req[t].activity_name \notin DOMAIN activities)
        => result[t] = NotFound

\* C7 witness: on a registry with activities, a SignUp and an Unregister for
\* an unknown activity have both answered NotFound
C7_Witness ==
    \E t, u \in Threads :
        /\ pc[t] = "done" /\ pc[u] = "done"
        /\ req[t].op = "signup" /\ req[u].op = "unregister"
        /\ DOMAIN activities # {}
        /\ req[t].activity_name \notin DOMAIN activities
        /\ req[u].activity_name \notin DOMAIN activities
        /\ result[t] = NotFound /\ result[u] = NotFound

\* C8: the step in which a call fails with NotFound, AlreadyRegistered or
\* NotRegistered is taken from one of the two checks by a call that has done
\* no append or remove, and leaves the registry, the file, the lock and the
\* write in progress as they are; only a call that has done its append or
\* remove is ever inside save_activities
C8_FailedCallChangesNothing ==
    [][\A t \in Threads :
          /\ (Completes(t)
              /\ result'[t] \in {NotFound, AlreadyRegistered, NotRegistered})
             => /\ pc[t] \in {"check_activity", "check_participant"}
                /\ ~applied[t]
                /\ UNCHANGED <<activities, data_file, lock, wbuf>>
          /\ Saving(t)' => applied'[t]]_vars

\* C8 witness: the same failing call has been made twice, and the registry
\* and the file are still as they were at startup
C8_Witness ==
    \E t, u \in Threads :
        /\ t # u
        /\ pc[t] = "done" /\ pc[u] = "done"
        /\ req[t] = req[u]
        /\ result[t] = result[u]
        /\ result[t] \in {AlreadyRegistered, NotRegistered}
        /\ activities = loaded
        /\ data_file = JsonFile(loaded)

\* C9: the step in which a save raises ends the call with Success, leaves
\* the registry with the call's mutation in it and the file as it is, and
\* starts no second save
C9_SaveFailureSwallowed ==
    [][\A t \in Threads :
          (faults' # faults /\ pc'[t] # pc[t])
          => /\ Saving(t)
             /\ applied[t]
             /\ pc'[t] = "done"
             /\ result'[t] = Success(req[t])
             /\ activities' = activities
             /\ data_file' = data_file]_vars

\* C9 witness: a call whose save failed has returned Success, and the file
\* does not hold the registry that is in memory
C9_Witness ==
    \E t \in Threads :
        /\ pc[t] = "done"
        /\ result[t] = Success(req[t])
        /\ faults > 0
        /\ Quiescent
        /\ load_activities(data_file) # activities

\* C10: a call that returns Success has done its append or remove; whenever
\* no request is being served and no save has failed, the file holds the
\* registry that is in memory; and a save that succeeds, also after a failed
\* save, leaves the file holding the registry that is in memory once no
\* request is being served
C10_EventuallyConsistent ==
    [][/\ \A t \in Threads :
             (Completes(t) /\ result'[t] = Success(req[t])) => applied[t]
       /\ (Quiescent' /\ faults' = 0)
             => load_activities(data_file') = activities'
       /\ \A t \in Threads :
             (/\ pc[t] = "save_dump"
              /\ Completes(t)
              /\ faults' = faults
              /\ Quiescent')
             => load_activities(data_file') = activities']_vars

\* C11: when requests are served one at a time, every save that ends
\* without raising leaves a file from which load_activities() returns the
\* registry that was saved: the same activity names, and for each of them
\* the same description, schedule, max_participants and participants
C11_RoundTrip ==
    [][\A t \in Threads :
          (pc[t] = "save_dump" /\ Completes(t) /\ faults' = faults)
          => LET back == load_activities(data_file')
             IN  /\ DOMAIN back = DOMAIN activities
                 /\ \A n \in DOMAIN activities :
                        /\ back[n].description = activities[n].description
                        /\ back[n].schedule = activities[n].schedule
                        /\ back[n].max_participants
                               = activities[n].max_participants
                        /\ back[n].participants
                               = activities[n].participants]_vars

\* a save has ended and the file gives back a registry with two
\* participants in an activity, which differs from the one loaded at startup
C11_Witness ==
    /\ Quiescent
    /\ data_file.kind = "json"
    /\ activities # loaded
    /\ \E n \in DOMAIN activities :
          Len(load_activities(data_file)[n].participants) = 2
    /\ load_activities(data_file) = activities

\* C12: before the first request the registry is what load_activities()
\* returns for the data file, and that is the empty registry when the file
\* is missing, cannot be opened or does not parse; and when the registry
\* loaded is empty, every GET /activities returns the empty map with
\* status 200
C12_LoadNeverFails ==
    /\ nreq = 0
          => /\ loaded = load_activities(data_file)
             /\ activities = loaded
             /\ data_file.kind # "json" => loaded = EmptyRegistry
    /\ \A t \in Threads :
          (pc[t] = "done" /\ req[t] = ListRequest /\ loaded = EmptyRegistry)
          => result[t] = Returned(EmptyRegistry)

\* the server was started on a file that holds a registry but is cut
\* short, and a listing has returned the empty map
C12_Witness ==
    \E t \in Threads :
        /\ data_file.kind = "corrupt"
        /\ data_file.data # EmptyRegistry
        /\ loaded = EmptyRegistry
        /\ pc[t] = "done"
        /\ req[t] = ListRequest
        /\ result[t] = Returned(EmptyRegistry)

\* thread t has the data file open for writing
Writing(t) == pc[t] = "save_dump"

\* C13: in every reachable state at most one thread has the data file open
\* for writing; a thread that is about to open it or has it open is the one
\* holder of the lock; and nothing has been written to the file that is
\* being written when no thread has it open
C13_WritesSerialized ==
    /\ Cardinality({t \in Threads : Writing(t)}) <= 1
    /\ \A t \in Threads : pc[t] \in {"save_open", "save_dump"} => lock = {t}
    /\ (\A t \in Threads : ~Writing(t)) => wbuf = EmptyRegistry

\* one thread is in the middle of its dump while another waits for the lock
C13_Witness ==
    \E t, u \in Threads :
        /\ Writing(t)
        /\ wbuf # EmptyRegistry
        /\ pc[u] = "save_lock"

\* C14: the map a GET /activities delivers is the whole registry as it was
\* at one instant between the arrival of the request and its response, also
\* when SignUp and Unregister requests run at the same time
C14_ListIsSnapshot ==
    [][\A t \in Threads :
          (pc[t] = "encode" /\ Completes(t))
          => /\ result'[t].outcome = "return"
             /\ result'[t].detail \in seen[t]]_vars

\* C15: a SignUp whose email is not in the list of its activity passes the
\* membership check whatever the length of the list and whatever
\* max_participants is, and, served alone for an email that was no
\* participant on arrival, returns Success with the list one longer than
\* it was, also when it was at or above max_participants
C15_NoCapacityCheck ==
    [][\A t \in Threads :
          LET n == req[t].activity_name
          IN  /\ (/\ pc[t] = "check_participant"
                  /\ pc'[t] # "check_participant"
                  /\ req[t].op = "signup"
                  /\ ~Contains(activities[n].participants, req[t].email))
                 => pc'[t] = "append"
              /\ (pc[t] = "append" /\ pc'[t] # "append")
                 => Len(activities'[n].participants)
                       = Len(activities[n].participants) + 1
              /\ (/\ Completes(t)
                  /\ req[t].op = "signup"
                  /\ n \in DOMAIN activities
                  /\ ~was_member[t])
                 => result'[t] = Success(req[t])]_vars

\* a SignUp has returned Success for an activity that now lists more
\* participants than its max_participants
C15_Witness ==
    \E t \in Threads :
        /\ pc[t] = "done"
        /\ req[t].op = "signup"
        /\ result[t] = Success(req[t])
        /\ IsParticipant(activities, req[t])
        /\ Len(activities[req[t].activity_name].participants)
              > activities[req[t].activity_name].max_participants

\* C16: under any interleaving no step changes the set of activity names,
\* which stays the set loaded at startup, nor the description, schedule or
\* max_participants of any activity; and a step that changes the
\* participant list of an activity is the append or the remove of a request
\* for that activity, which leaves the other lists as they were
C16_OnlyParticipantsOfA ==
    [][/\ DOMAIN activities' = DOMAIN loaded
       /\ \A n \in DOMAIN activities :
             /\ activities'[n].description = loaded[n].description
             /\ activities'[n].schedule = loaded[n].schedule
             /\ activities'[n].max_participants = loaded[n].max_participants
       /\ activities' # activities
             => \E t \in Threads :
                   /\ pc[t] \in {"append", "remove"}
                   /\ pc'[t] # pc[t]
                   /\ \A n \in DOMAIN activities \ {req[t].activity_name} :
                         activities'[n] = activities[n]]_vars

\* a SignUp for Gym Class has been applied and returned while Chess Club
\* keeps the two participants it was loaded with
C16_Witness ==
    \E t \in Threads :
        /\ pc[t] = "done"
        /\ req[t].op = "signup"
        /\ req[t].activity_name = "Gym Class"
        /\ result[t] = Success(req[t])
        /\ activities["Gym Class"] # loaded["Gym Class"]
        /\ Len(loaded["Chess Club"].participants) = 2
        /\ activities["Chess Club"] = loaded["Chess Club"]

\* the length of every list is its length at startup plus the appends done
\* minus the removes done for its activity
Counted ==
    \A n \in DOMAIN activities :
        Len(Participants(activities, n))
            = Len(Participants(loaded, n)) + appended[n] - removed[n]

\* C17: under any interleaving the length of every participant list is
\* its length at startup plus the number of appends done minus the number
\* of removes done for its activity; the append of a SignUp makes the list
\* of its activity one longer and the remove of an Unregister one shorter;
\* and a call returns Success only after its append or remove
C17_CountingInvariant ==
    [][/\ Counted /\ Counted'
       /\ \A t \in Threads :
             LET n == req[t].activity_name
             IN  /\ (pc[t] = "append" /\ pc'[t] # "append")
                    => /\ appended'[n] = appended[n] + 1
                       /\ Len(Participants(activities', n))
                             = Len(Participants(activities, n)) + 1
                 /\ (pc[t] = "remove" /\ pc'[t] = "save_mkdir")
                    => /\ removed'[n] = removed[n] + 1
                       /\ Len(Participants(activities', n))
                             = Len(Participants(activities, n)) - 1
                 /\ (Completes(t) /\ result'[t] = Success(req[t]))
                    => /\ applied[t]
                       /\ appended[n] + removed[n] > 0]_vars

\* a SignUp and an Unregister for the same activity have both done their
\* step on the list, and neither has saved yet
C17_Witness ==
    \E n \in DOMAIN activities :
        /\ appended[n] = 1
        /\ removed[n] = 1
        /\ \E t, u \in Threads :
              /\ t # u
              /\ pc[t] = "save_mkdir" /\ req[t].op = "signup"
              /\ pc[u] = "save_mkdir" /\ req[u].op = "unregister"
              /\ req[t].activity_name = n
              /\ req[u].activity_name = n

\* thread t holds the lock: it is between `with _lock:` and the end of the
\* block
InLockedBlock(t) == pc[t] \in {"save_open", "save_dump"}

\* C18: a thread takes the lock only at the `with _lock:` of its request's
\* one save and only when it is free; it holds it exactly while it is
\* inside the block, so the lock is free whenever no thread is inside and a
\* request that has returned, also after a failed open or write, does not
\* hold it; and under fair scheduling every request that is being served
\* eventually returns
C18_LockReleasedAndRequestsReturn ==
    /\ [](\A t \in Threads : t \in lock <=> InLockedBlock(t))
    /\ []((\A t \in Threads : ~InLockedBlock(t)) => lock = {})
    /\ [][\A t \in Threads :
             /\ (t \notin lock /\ t \in lock')
                => (pc[t] = "save_lock" /\ lock = {} /\ applied[t])
             /\ (InLockedBlock(t) /\ ~InLockedBlock(t)')
                => (pc'[t] = "done" /\ t \notin lock')]_vars
    /\ \A t \in Threads : (pc[t] \notin {"idle", "done"}) ~> (pc[t] = "done")

\* a write has failed inside the locked block of a server started on a
\* whole file, which is left cut short; the lock is free again and two
\* requests have returned Success
C18_Witness ==
    \E t, u \in Threads :
        /\ t # u
        /\ faults > 0
        /\ loaded # EmptyRegistry
        /\ data_file.kind = "corrupt"
        /\ lock = {}
        /\ pc[t] = "done" /\ result[t] = Success(req[t])
        /\ pc[u] = "done" /\ result[u] = Success(req[u])

====
